---- MODULE Spec2Model ----
(***************************************************************************)
(* GarlicSim's SimpackGrokker: the analysis of a simpack (classification   *)
(* of the State class's step functions, validation, choice of the default  *)
(* step function, settings), the per-simpack instance cache behind the     *)
(* class, and the step-iterator factory methods.                           *)
(***************************************************************************)
EXTENDS Integers, Sequences, FiniteSets, TLC

\* ------------------------------------------------------------------ bounds

\* Most members (methods and attributes) a State class declares.
MaxMembers == 2
\* Threads calling SimpackGrokker(...) / create_from_state(...).
NumThreads == 2
\* Most SimpackGrokker instances ever constructed in one run.
MaxGrokkers == 3
\* Largest clock reading of a state handed to the grokker.
MaxClock == 1
\* Most step iterators made in one run.
MaxIterators == 1
\* Most draws (next() calls) on one iterator.
MaxDraws == 3
\* Largest value a variable under a TempValueSetter takes.
MaxValue == 2

Threads == 1..NumThreads

\* ------------------------------------------------------- step types, members

HistoryStepTypes == {"HistoryStep", "HistoryStepGenerator"}

NonHistoryStepTypes ==
    {"SimpleStep", "StepGenerator", "InplaceStep", "InplaceStepGenerator"}

InplaceStepTypes == {"InplaceStep", "InplaceStepGenerator"}

GeneratorStepTypes ==
    {"StepGenerator", "InplaceStepGenerator", "HistoryStepGenerator"}

\* step_types.step_types_list: the six step types.
step_types_list == HistoryStepTypes \cup NonHistoryStepTypes

\* A method of State whose name contains 'step'; step_type is what
\* get_step_type answers for it.
StepMethod(t) == [is_callable |-> TRUE, name_has_step |-> TRUE, step_type |-> t]

\* A method of State whose name does not contain 'step'.
HelperMethod ==
    [is_callable |-> TRUE, name_has_step |-> FALSE, step_type |-> "none"]

\* A non-callable attribute of State whose name contains 'step'.
StepAttribute ==
    [is_callable |-> FALSE, name_has_step |-> TRUE, step_type |-> "none"]

\* What vars(State) can hold.
Members ==
    {StepMethod(t) : t \in step_types_list} \cup {HelperMethod, StepAttribute}

BoundedSeq(S, n) == UNION {[1..k -> S] : k \in 0..n}

\* The kinds of member in one fixed order.
MemberKinds ==
    <<StepMethod("SimpleStep"), StepMethod("StepGenerator"),
      StepMethod("InplaceStep"), StepMethod("InplaceStepGenerator"),
      StepMethod("HistoryStep"), StepMethod("HistoryStepGenerator"),
      HelperMethod, StepAttribute>>

KindOf(m) == CHOOSE k \in DOMAIN MemberKinds : MemberKinds[k] = m

\* vars(State) is a dict and keeps no order of declaration: the members are
\* listed here by kind and, within a kind, in their order of declaration;
\* the order in which the dict yields them is drawn apart, in IterationOrders.
MemberListings ==
    {ms \in BoundedSeq(Members, MaxMembers) :
        \A i, j \in DOMAIN ms : i < j => KindOf(ms[i]) <= KindOf(ms[j])}

\* ----------------------------------------------------------------- settings

\* The attributes of a fresh Settings() instance.
RecognizedOptions == {"DETERMINISM_FUNCTION", "RECOGNIZED_FLAG"}

\* Attribute names a simpack's own settings object may carry.
SettingsAttributes == RecognizedOptions \cup {"UNRECOGNIZED_OPTION"}

\* Settings(): every recognized option at its framework default.
Settings == [o \in RecognizedOptions |-> <<"default", o>>]

\* getattr(original_settings, key) for a key the simpack's settings define.
OriginalValue(key) == <<"simpack", key>>

\* ----------------------------------------------------------------- simpacks

SampleSimpack == "sample_simpack"
OtherSimpack == "simpack"
SimpackNames == {SampleSimpack, OtherSimpack}

\* A simpack as the grokker sees it.  state_class: whether simpack.State
\* exists ("missing" if not) and subclasses garlicsim.data_structures.State
\* ("not_state" if not); members: vars(State).  settings_kind:
\* "attribute" when simpack.settings is already an attribute, "submodule"
\* when the simpack is a package with a settings submodule not imported yet.
AllSimpackContents ==
    {sp \in [is_module : BOOLEAN,
             state_class : {"missing", "not_state", "ok"},
             members : MemberListings,
             settings_kind : {"none", "attribute", "submodule"},
             settings_attrs : SUBSET SettingsAttributes] :
        /\ sp.state_class = "missing" => sp.members = <<>>
        /\ sp.settings_kind = "none" => sp.settings_attrs = {}
        /\ sp.settings_kind = "submodule" => sp.is_module}

\* The sample simpack of the test: a State with the single method `step`.
SampleContent ==
    [is_module |-> TRUE, state_class |-> "ok",
     members |-> <<StepMethod("SimpleStep")>>,
     settings_kind |-> "none", settings_attrs |-> {}]

\* __init_analysis reads simpack.State only and __init_analysis_settings
\* reads simpack.settings only, so the simpacks analysed vary one of the two
\* at a time: any State in a module without settings, or any settings
\* around the sample's State.
StateVariedContents ==
    {sp \in AllSimpackContents : sp.is_module /\ sp.settings_kind = "none"}

SettingsVariedContents ==
    {sp \in AllSimpackContents :
        sp.state_class = "ok" /\ sp.members = SampleContent.members}

SimpackContents == StateVariedContents \cup SettingsVariedContents

VARIABLES
    simpacks,    \* simpack name -> its content
    cache,       \* CachedType's cache: simpack name -> grokker id, 0 if none
    lock,        \* the cache's per-key initialization lock: holder, 0 if free
    grokkers,    \* every SimpackGrokker instance constructed, by id
    pc,          \* per thread: where it is in SimpackGrokker(simpack)
    call,        \* per thread: the call in progress
    outcome,     \* per thread: how its last call ended
    returned,    \* simpack name -> ids of the instances calls have returned
    iterator,    \* the step iterator the caller holds: the last one made
    result,      \* how the last stepping call ended
    variable,    \* the value of the variable a TempValueSetter is over
    temp_value_setter,  \* the TempValueSetter's attributes
    with_statement      \* the `with` statement run on the TempValueSetter

vars == <<simpacks, cache, lock, grokkers, pc, call, outcome, returned,
          iterator, result, variable, temp_value_setter, with_statement>>

analysisVars == <<cache, lock, grokkers, pc, call, outcome, returned>>
steppingVars == <<iterator, result>>
scopeVars == <<variable, temp_value_setter, with_statement>>

\* ----------------------------------------------------------------- analysis

\* misc_tools.getted_vars(State): one entry per name in vars(State).
getted_vars(sp) == DOMAIN sp.members

\* state_methods: the callable entries of getted_vars(State).
state_methods(sp) == {i \in getted_vars(sp) : sp.members[i].is_callable}

\* The orders in which state_methods.itervalues() may yield the methods: a
\* dict's iteration order is not the declaration order.
IterationOrders(sp) ==
    {o \in [1..Cardinality(state_methods(sp)) -> state_methods(sp)] :
        \A i, j \in DOMAIN o : i # j => o[i] # o[j]}

\* get_step_type(method) for a method of the simpack's State.
StepTypeOf(sp, i) == sp.members[i].step_type

\* self.step_functions: per step type, the methods with 'step' in their name,
\* in iteration order.
step_functions(sp, order) ==
    [t \in step_types_list |->
        SelectSeq(order, LAMBDA i : /\ sp.members[i].name_has_step
                                    /\ StepTypeOf(sp, i) = t)]

\* The check for step functions left out.
NoStepFunctions_unchecked(sf) == FALSE

\* `not all_step_functions`: no step function in any category.
NoStepFunctions(sf) == \A t \in step_types_list : sf[t] = <<>>

\* The first `if`: some history step function is defined.
HasHistoryStep(sf) ==
    sf["HistoryStep"] # <<>> \/ sf["HistoryStepGenerator"] # <<>>

\* The inner `if` without its two in-place step types.
HasNonHistoryStep_without_inplace(sf) ==
    sf["SimpleStep"] # <<>> \/ sf["StepGenerator"] # <<>>

\* The inner `if`: some non-history step function is defined as well.
HasNonHistoryStep(sf) ==
    \/ sf["SimpleStep"] # <<>>
    \/ sf["StepGenerator"] # <<>>
    \/ sf["InplaceStep"] # <<>>
    \/ sf["InplaceStepGenerator"] # <<>>

\* The candidates concatenated with the one-shot step types first.
DefaultCandidates_oneshot_first(sf, history_dependent) ==
    IF history_dependent
    THEN sf["HistoryStep"] \o sf["HistoryStepGenerator"]
    ELSE sf["SimpleStep"] \o sf["StepGenerator"]
         \o sf["InplaceStep"] \o sf["InplaceStepGenerator"]

\* The list whose element [0] becomes default_step_function.
DefaultCandidates(sf, history_dependent) ==
    IF history_dependent
    THEN sf["HistoryStepGenerator"] \o sf["HistoryStep"]
    ELSE sf["StepGenerator"] \o sf["SimpleStep"]
         \o sf["InplaceStepGenerator"] \o sf["InplaceStep"]

NoAnalysis ==
    [step_functions |-> [t \in step_types_list |-> <<>>],
     history_dependent |-> FALSE, default_step_function |-> 0]

Raise(exc) == [raised |-> exc] @@ NoAnalysis

\* The subclass check left out.
IsStateSubclass_unchecked(sp) == TRUE

\* issubclass(State, garlicsim.data_structures.State).
IsStateSubclass(sp) == sp.state_class = "ok"

\* SimpackGrokker.__init_analysis: what it raises ("none" when it returns)
\* and the attributes it has set by then.
init_analysis(sp, order) ==
    IF sp.state_class = "missing" THEN Raise("InvalidSimpack")
    ELSE IF ~IsStateSubclass(sp) THEN Raise("InvalidSimpack")
    ELSE LET sf == step_functions(sp, order)
             hd == HasHistoryStep(sf)
             candidates == DefaultCandidates(sf, hd)
         IN  IF NoStepFunctions(sf) THEN Raise("InvalidSimpack")
             ELSE IF candidates = <<>> THEN Raise("IndexError")
             ELSE IF hd /\ HasNonHistoryStep(sf) THEN Raise("InvalidSimpack")
             ELSE [raised |-> "none", step_functions |-> sf,
                   history_dependent |-> hd,
                   default_step_function |-> candidates[1]]

\* import_tools.import_if_exists(simpack.__name__ + '.settings'): whether the
\* submodule exists, and so becomes the attribute simpack.settings.
import_if_exists_settings(sp) == sp.settings_kind = "submodule"

\* hasattr(self.simpack, 'settings') without the import before it.
HasSettings_without_import(sp) == sp.settings_kind = "attribute"

\* hasattr(self.simpack, 'settings') at the second `if`, after the import
\* the first `if` may have done.
HasSettings(sp) ==
    \/ sp.settings_kind = "attribute"
    \/ /\ sp.is_module
       /\ sp.settings_kind # "attribute"
       /\ import_if_exists_settings(sp)

\* SimpackGrokker.__init_analysis_settings: self.settings.
init_analysis_settings(sp) ==
    IF HasSettings(sp)
    THEN [key \in DOMAIN Settings |->
            IF key \in sp.settings_attrs THEN OriginalValue(key)
            ELSE Settings[key]]
    ELSE Settings

\* SimpackGrokker.__init__(simpack): the exception it raises, or the
\* instance's attributes.
SimpackGrokker__init__(name, sp, order) ==
    LET a == init_analysis(sp, order)
    IN  IF a.raised # "none"
        THEN [raised |-> a.raised, grokker |-> <<>>]
        ELSE [raised |-> "none",
              grokker |-> [simpack |-> name,
                           step_functions |-> a.step_functions,
                           history_dependent |-> a.history_dependent,
                           default_step_function |-> a.default_step_function,
                           settings |-> init_analysis_settings(sp)]]

\* ------------------------------------------------- the cached class's call

NoCall == [simpack |-> "none", via |-> "none"]

NoOutcome ==
    [kind |-> "none", via |-> "none", simpack |-> "none", grokker |-> 0,
     exc |-> "none"]

Returned(c, g) ==
    [kind |-> "returned", via |-> c.via, simpack |-> c.simpack, grokker |-> g,
     exc |-> "none"]

Raised(c, exc) ==
    [kind |-> "raised", via |-> c.via, simpack |-> c.simpack, grokker |-> 0,
     exc |-> exc]

\* The states that exist: instances of the State class of a simpack that
\* has one, each with a clock reading.
StateObjects ==
    [simpack : {n \in SimpackNames : simpacks[n].state_class = "ok"},
     clock : 0..MaxClock]

\* simpack_tools.get_from_state(state): the simpack that produced the state.
get_from_state(state) == state.simpack

\* CachedType.__call__ up to the cache lookup, without the key's
\* initialization lock.
CachedType_enter_unlocked(t, name, via) ==
    /\ pc[t] = "idle"
    /\ LET c == [simpack |-> name, via |-> via]
       IN  \/ /\ cache[name] # 0
              /\ outcome' = [outcome EXCEPT ![t] = Returned(c, cache[name])]
              /\ returned' = [returned EXCEPT ![name] = @ \cup {cache[name]}]
              /\ UNCHANGED <<pc, call>>
           \/ /\ cache[name] = 0
              /\ pc' = [pc EXCEPT ![t] = "construct"]
              /\ call' = [call EXCEPT ![t] = c]
              /\ UNCHANGED <<outcome, returned>>
    /\ UNCHANGED <<simpacks, cache, lock, grokkers>>
    /\ UNCHANGED steppingVars
    /\ UNCHANGED scopeVars

\* CachedType.__call__ up to the cache lookup.  Requests for one key are
\* serialized by the key's initialization lock; a hit returns the cached
\* instance at once, a miss goes on to construct with the lock held.
CachedType_enter(t, name, via) ==
    /\ pc[t] = "idle"
    /\ lock[name] = 0
    /\ LET c == [simpack |-> name, via |-> via]
       IN  \/ /\ cache[name] # 0
              /\ outcome' = [outcome EXCEPT ![t] = Returned(c, cache[name])]
              /\ returned' = [returned EXCEPT ![name] = @ \cup {cache[name]}]
              /\ UNCHANGED <<pc, call, lock>>
           \/ /\ cache[name] = 0
              /\ lock' = [lock EXCEPT ![name] = t]
              /\ pc' = [pc EXCEPT ![t] = "construct"]
              /\ call' = [call EXCEPT ![t] = c]
              /\ UNCHANGED <<outcome, returned>>
    /\ UNCHANGED <<simpacks, cache, grokkers>>
    /\ UNCHANGED steppingVars
    /\ UNCHANGED scopeVars

\* CachedType.__call__ on a miss: type.__call__ runs SimpackGrokker.__init__;
\* an exception leaves the cache as it was and reaches the caller, a new
\* instance is cached and returned.
CachedType_construct(t) ==
    /\ pc[t] = "construct"
    /\ LET name == call[t].simpack
       IN  /\ \E order \in IterationOrders(simpacks[name]) :
                LET r == SimpackGrokker__init__(name, simpacks[name], order)
                    new == Len(grokkers) + 1
                IN  \/ /\ r.raised # "none"
                       /\ outcome' = [outcome EXCEPT ![t] = Raised(call[t], r.raised)]
                       /\ UNCHANGED <<grokkers, cache, returned>>
                    \/ /\ r.raised = "none"
                       /\ Len(grokkers) < MaxGrokkers
                       /\ grokkers' = Append(grokkers, r.grokker)
                       /\ cache' = [cache EXCEPT ![name] = new]
                       /\ outcome' = [outcome EXCEPT ![t] = Returned(call[t], new)]
                       /\ returned' = [returned EXCEPT ![name] = @ \cup {new}]
           /\ lock' = [lock EXCEPT ![name] = IF @ = t THEN 0 ELSE @]
    /\ pc' = [pc EXCEPT ![t] = "idle"]
    /\ call' = [call EXCEPT ![t] = NoCall]
    /\ UNCHANGED simpacks
    /\ UNCHANGED steppingVars
    /\ UNCHANGED scopeVars

\* A class without the CachedType metaclass: every call constructs.
PlainTypeCall(t, name, via) ==
    /\ pc[t] = "idle"
    /\ \E order \in IterationOrders(simpacks[name]) :
         LET r == SimpackGrokker__init__(name, simpacks[name], order)
             c == [simpack |-> name, via |-> via]
         IN  \/ /\ r.raised # "none"
                /\ outcome' = [outcome EXCEPT ![t] = Raised(c, r.raised)]
                /\ UNCHANGED <<grokkers, returned>>
             \/ /\ r.raised = "none"
                /\ Len(grokkers) < MaxGrokkers
                /\ grokkers' = Append(grokkers, r.grokker)
                /\ outcome' = [outcome EXCEPT ![t] = Returned(c, Len(grokkers) + 1)]
                /\ returned' = [returned EXCEPT ![name] = @ \cup {Len(grokkers) + 1}]
    /\ UNCHANGED <<simpacks, cache, lock, pc, call>>
    /\ UNCHANGED steppingVars
    /\ UNCHANGED scopeVars

\* Calling the class SimpackGrokker, whose metaclass is CachedType.
ClassCall(t, name, via) == CachedType_enter(t, name, via)

\* SimpackGrokker(simpack).
SimpackGrokker(t, name) == ClassCall(t, name, "SimpackGrokker")

\* SimpackGrokker.create_from_state(state).
create_from_state(t, state) ==
    ClassCall(t, get_from_state(state), "create_from_state")

\* ----------------------------------------------------------------- stepping

\* The step functions a profile can name: the callable members of some
\* simpack's State with 'step' in their name.
StepFunctions ==
    {f \in [simpack : SimpackNames, index : 1..MaxMembers] :
        /\ f.index \in DOMAIN simpacks[f.simpack].members
        /\ simpacks[f.simpack].members[f.index].is_callable
        /\ simpacks[f.simpack].members[f.index].name_has_step}

\* garlicsim.misc.StepProfile: a step function with its arguments (the
\* arguments play no part in what the grokker does with a profile).
StepProfiles == [step_function : StepFunctions]

\* get_step_type(step_function).
get_step_type(f) == simpacks[f.simpack].members[f.index].step_type

\* What a caller passes as state_or_history_browser.
StatesOrHistoryBrowsers == [kind : {"state", "history_browser"}, clock : 0..MaxClock]

\* step_type.step_iterator_class: the standard iterator class of a step type,
\* named here by the step type; the in-place step types have none.
step_iterator_class(step_type) ==
    IF step_type \in InplaceStepTypes THEN "none" ELSE step_type

\* What the last stepping call did: the method, what it raised, the step
\* type of the profile it was given, the iterator it was called on (target)
\* or answered (iterator), the clock of the state it was given and of the
\* state it answered.
NoResult ==
    [op |-> "none", raised |-> "none", step_type |-> "none", target |-> 0,
     iterator |-> 0, source_clock |-> -1, clock |-> -1]

\* The caller's variable `iterator` before anything is bound to it.
NoIterator == [id |-> 0]

\* The generator iterator class used for every step type that has a class.
StepIteratorClassFor_always_generator(step_type) ==
    IF step_type \in InplaceStepTypes THEN "none" ELSE "StepGenerator"

\* The iterator class get_step_iterator instantiates for a step type.
StepIteratorClassFor(step_type) == step_iterator_class(step_type)

\* iterator = simpack_grokker.get_step_iterator(state_or_history_browser,
\* step_profile): the iterator made is bound to the caller's variable, in
\* place of the one made before.
get_step_iterator(g, sob, step_profile) ==
    /\ g \in DOMAIN grokkers
    /\ LET step_type == get_step_type(step_profile.step_function)
           cls == StepIteratorClassFor(step_type)
           r == [NoResult EXCEPT !.op = "get_step_iterator",
                                 !.step_type = step_type,
                                 !.source_clock = sob.clock]
       IN  \/ /\ cls = "none"
              /\ result' = [r EXCEPT !.raised = "AttributeError"]
              /\ UNCHANGED iterator
           \/ /\ cls # "none"
              /\ iterator.id < MaxIterators
              /\ iterator' = [id |-> iterator.id + 1, iterator_class |-> cls,
                              bound |-> sob, step_profile |-> step_profile,
                              draws |-> <<>>]
              /\ result' = [r EXCEPT !.iterator = iterator.id + 1]
    /\ UNCHANGED simpacks
    /\ UNCHANGED analysisVars
    /\ UNCHANGED scopeVars

\* SimpackGrokker.get_inplace_step_iterator(state, step_profile): a non-in-place
\* step function raises GarlicSimException; for an in-place one the method
\* goes on to read `state_or_history_browser`, a name it never binds.
get_inplace_step_iterator(g, state, step_profile) ==
    /\ g \in DOMAIN grokkers
    /\ LET step_type == get_step_type(step_profile.step_function)
           r == [NoResult EXCEPT !.op = "get_inplace_step_iterator",
                                 !.step_type = step_type,
                                 !.source_clock = state.clock]
       IN  \/ /\ step_type \notin InplaceStepTypes
              /\ result' = [r EXCEPT !.raised = "GarlicSimException"]
           \/ /\ step_type \in InplaceStepTypes
              /\ result' = [r EXCEPT !.raised = "NameError"]
    /\ UNCHANGED <<simpacks, iterator>>
    /\ UNCHANGED analysisVars
    /\ UNCHANGED scopeVars

\* simpack_grokker.step(state_or_history_browser, step_profile): the class
\* body holds the method only inside a string literal, so the attribute
\* lookup fails.
step(g, sob, step_profile) ==
    /\ g \in DOMAIN grokkers
    /\ result' = [NoResult EXCEPT
                    !.op = "step",
                    !.step_type = get_step_type(step_profile.step_function),
                    !.source_clock = sob.clock,
                    !.raised = "AttributeError"]
    /\ UNCHANGED <<simpacks, iterator>>
    /\ UNCHANGED analysisVars
    /\ UNCHANGED scopeVars

\* What one draw from an iterator does, given its class and its earlier
\* draws: a generator step type delegates to the step function's generator,
\* which yields or ends as it pleases and stays ended; any other step type
\* yields the step function's return value once and is exhausted after.
DrawOutcomes(it) ==
    IF it.iterator_class \in GeneratorStepTypes
    THEN IF it.draws # <<>> /\ it.draws[Len(it.draws)] = "StopIteration"
         THEN {"StopIteration"}
         ELSE {"value", "StopIteration"}
    ELSE IF it.draws = <<>> THEN {"value"} ELSE {"StopIteration"}

\* iterator.next().
next ==
    /\ iterator.id # 0
    /\ Len(iterator.draws) < MaxDraws
    /\ \E d \in DrawOutcomes(iterator) :
         /\ iterator' = [iterator EXCEPT !.draws = Append(@, d)]
         /\ result' = [NoResult EXCEPT
                         !.op = "next",
                         !.step_type = get_step_type(iterator.step_profile.step_function),
                         !.target = iterator.id,
                         !.raised = IF d = "value" THEN "none" ELSE d]
    /\ UNCHANGED simpacks
    /\ UNCHANGED analysisVars
    /\ UNCHANGED scopeVars

\* The iteration handle iterator.__iter__() answers.
IterationHandle(it) == it.id

\* iterator.__iter__().
iter ==
    /\ iterator.id # 0
    /\ result' = [NoResult EXCEPT
                    !.op = "__iter__",
                    !.step_type = get_step_type(iterator.step_profile.step_function),
                    !.target = iterator.id,
                    !.iterator = IterationHandle(iterator)]
    /\ UNCHANGED <<simpacks, iterator>>
    /\ UNCHANGED analysisVars
    /\ UNCHANGED scopeVars

\* --------------------------------------------------------- TempValueSetter

\* The values a variable takes.
Values == 0..MaxValue

\* NotInDict: what the getter of a (dict, key) variable answers when the key
\* is not in the dict.
NotInDict == -1

\* An attribute of the TempValueSetter that __enter__ has not set yet.
Unset == -2

\* The three forms of `variable` that __init__ accepts.
VariableKinds == {"attribute", "dict", "getter_setter"}

\* What the mechanism behind a (getter, setter) pair makes of a value set to
\* it: an equivalent value, not always the identical one.
Processed(v) == (v \div 2) * 2

\* The values a variable of each kind can hold.
Holdable(kind) ==
    IF kind = "dict" THEN Values \cup {NotInDict}
    ELSE IF kind = "getter_setter" THEN {Processed(v) : v \in Values}
    ELSE Values

\* self.getter(): getattr(parent, name), first.get(second, NotInDict), or
\* the getter handed in.
getter(kind, current) == current

\* self.setter(value): what it raises and what the variable holds after.
\* On a dict, setting NotInDict deletes the key, a KeyError when the key is
\* not there.
setter(kind, current, value) ==
    IF kind = "dict"
    THEN IF value = NotInDict /\ current = NotInDict
         THEN [raised |-> "KeyError", variable |-> current]
         ELSE [raised |-> "none", variable |-> value]
    ELSE IF kind = "getter_setter"
    THEN [raised |-> "none", variable |-> Processed(value)]
    ELSE [raised |-> "none", variable |-> value]

\* TempValueSetter(variable, value): the instance after __init__.
TempValueSetter(kind, value) ==
    [kind |-> kind, value |-> value, old_value |-> Unset,
     value_right_after_setting |-> Unset]

\* The `with` statement before it starts.  debug: whether the interpreter
\* runs assert statements (__debug__); before: the variable's value when the
\* statement started; changed: whether the suite has set the variable;
\* raised: the exception the statement ended with.
WithStatement(debug) ==
    [pc |-> "start", debug |-> debug, before |-> Unset, changed |-> FALSE,
     raised |-> "none"]

\* No TempValueSetter in use.
NoScope ==
    /\ variable = 0
    /\ temp_value_setter = TempValueSetter("none", 0)
    /\ with_statement = [WithStatement(TRUE) EXCEPT !.pc = "none"]

\* TempValueSetter.__enter__, called as the `with` statement starts.
TempValueSetter_enter ==
    /\ with_statement.pc = "start"
    /\ LET kind == temp_value_setter.kind
           old_value == getter(kind, variable)
           set == setter(kind, variable, temp_value_setter.value)
       IN  /\ variable' = set.variable
           /\ temp_value_setter' =
                [temp_value_setter EXCEPT
                    !.old_value = old_value,
                    !.value_right_after_setting = getter(kind, set.variable)]
           /\ with_statement' = [with_statement EXCEPT !.pc = "suite",
                                                        !.before = variable]
    /\ UNCHANGED simpacks
    /\ UNCHANGED analysisVars
    /\ UNCHANGED steppingVars

\* The suite of the `with` statement sets the variable.
SuiteSets(v) ==
    /\ with_statement.pc = "suite"
    /\ v \in Holdable(temp_value_setter.kind)
    /\ v # variable
    /\ variable' = v
    /\ with_statement' = [with_statement EXCEPT !.changed = TRUE]
    /\ UNCHANGED temp_value_setter
    /\ UNCHANGED simpacks
    /\ UNCHANGED analysisVars
    /\ UNCHANGED steppingVars

\* `assert self.getter() == self._value_right_after_setting`: whether
\* __exit__ gets past it.
ExitCheckPasses(debug, now, recorded) == ~debug \/ now = recorded

\* TempValueSetter.__exit__, called as the suite ends, normally or with the
\* exception it raised.  __exit__ answers None, so the suite's exception goes
\* on to the caller; an exception of __exit__ itself takes its place.
TempValueSetter_exit(suite_raised) ==
    /\ with_statement.pc = "suite"
    /\ LET kind == temp_value_setter.kind
           passes == ExitCheckPasses(with_statement.debug,
                                     getter(kind, variable),
                                     temp_value_setter.value_right_after_setting)
           set == setter(kind, variable, temp_value_setter.old_value)
       IN  IF ~passes
           THEN /\ with_statement' = [with_statement EXCEPT
                                        !.pc = "ended",
                                        !.raised = "AssertionError"]
                /\ UNCHANGED variable
           ELSE /\ variable' = set.variable
                /\ with_statement' =
                     [with_statement EXCEPT
                        !.pc = "ended",
                        !.raised = IF set.raised # "none" THEN set.raised
                                   ELSE suite_raised]
    /\ UNCHANGED temp_value_setter
    /\ UNCHANGED simpacks
    /\ UNCHANGED analysisVars
    /\ UNCHANGED steppingVars

\* ------------------------------------------------------------ specification

Init ==
    /\ \E sp \in SimpackContents :
         simpacks = [n \in SimpackNames |->
                        IF n = SampleSimpack THEN SampleContent ELSE sp]
    /\ cache = [n \in SimpackNames |-> 0]
    /\ lock = [n \in SimpackNames |-> 0]
    /\ grokkers = <<>>
    /\ pc = [t \in Threads |-> "idle"]
    /\ call = [t \in Threads |-> NoCall]
    /\ outcome = [t \in Threads |-> NoOutcome]
    /\ returned = [n \in SimpackNames |-> {}]
    /\ iterator = NoIterator
    /\ result = NoResult
    /\ NoScope

Next ==
    \/ \E t \in Threads, name \in SimpackNames : SimpackGrokker(t, name)
    \/ \E t \in Threads, state \in StateObjects : create_from_state(t, state)
    \/ \E t \in Threads : CachedType_construct(t)

Spec == Init /\ [][Next]_vars

\* Of a simpack the stepping methods read the step type of the profile's
\* step function and nothing else: the simpacks stepped declare one step
\* function, of any step type.
SteppingSimpackContents ==
    {sp \in StateVariedContents :
        /\ sp.state_class = "ok"
        /\ \E t \in step_types_list : sp.members = <<StepMethod(t)>>}

\* The state once one caller has analysed the sample simpack and then the
\* other simpack: where the stepping methods become callable.
InitStepping ==
    \E sp \in SteppingSimpackContents :
      \E order \in IterationOrders(sp), sorder \in IterationOrders(SampleContent) :
        LET s == SimpackGrokker__init__(SampleSimpack, SampleContent, sorder)
            r == SimpackGrokker__init__(OtherSimpack, sp, order)
            c == [simpack |-> OtherSimpack, via |-> "SimpackGrokker"]
            ok == r.raised = "none"
        IN  /\ simpacks = [n \in SimpackNames |->
                              IF n = SampleSimpack THEN SampleContent ELSE sp]
            /\ grokkers = IF ok THEN <<s.grokker, r.grokker>> ELSE <<s.grokker>>
            /\ cache = [n \in SimpackNames |->
                          IF n = SampleSimpack THEN 1 ELSE IF ok THEN 2 ELSE 0]
            /\ returned = [n \in SimpackNames |->
                          IF n = SampleSimpack THEN {1} ELSE IF ok THEN {2} ELSE {}]
            /\ lock = [n \in SimpackNames |-> 0]
            /\ pc = [t \in Threads |-> "idle"]
            /\ call = [t \in Threads |-> NoCall]
            /\ outcome = [t \in Threads |->
                            IF t # 1 THEN NoOutcome
                            ELSE IF ok THEN Returned(c, 2) ELSE Raised(c, r.raised)]
            /\ iterator = NoIterator
            /\ result = NoResult
            /\ NoScope

NextStepping ==
    \/ \E g \in DOMAIN grokkers, sob \in StatesOrHistoryBrowsers,
          step_profile \in StepProfiles : get_step_iterator(g, sob, step_profile)
    \/ \E g \in DOMAIN grokkers, sob \in StatesOrHistoryBrowsers,
          step_profile \in StepProfiles :
            /\ sob.kind = "state"
            /\ get_inplace_step_iterator(g, sob, step_profile)
    \/ \E g \in DOMAIN grokkers, sob \in StatesOrHistoryBrowsers,
          step_profile \in StepProfiles : step(g, sob, step_profile)
    \/ next
    \/ iter

SpecStepping == InitStepping /\ [][NextStepping]_vars

\* A TempValueSetter constructed over a variable of any kind holding any
\* value, about to be used in a `with` statement; no grokker is involved.
InitScope ==
    /\ simpacks = [n \in SimpackNames |-> SampleContent]
    /\ cache = [n \in SimpackNames |-> 0]
    /\ lock = [n \in SimpackNames |-> 0]
    /\ grokkers = <<>>
    /\ pc = [t \in Threads |-> "idle"]
    /\ call = [t \in Threads |-> NoCall]
    /\ outcome = [t \in Threads |-> NoOutcome]
    /\ returned = [n \in SimpackNames |-> {}]
    /\ iterator = NoIterator
    /\ result = NoResult
    /\ \E kind \in VariableKinds, value \in Values, debug \in BOOLEAN :
         /\ variable \in Holdable(kind)
         /\ temp_value_setter = TempValueSetter(kind, value)
         /\ with_statement = WithStatement(debug)

NextScope ==
    \/ TempValueSetter_enter
    \/ \E v \in Values \cup {NotInDict} : SuiteSets(v)
    \/ \E suite_raised \in {"none", "Exception"} : TempValueSetter_exit(suite_raised)

SpecScope == InitScope /\ [][NextScope]_vars

\* ------------------------------------------------------------------- claims

\* The step types of the callable members of State with 'step' in their name.
DefinedStepTypes(sp) ==
    {sp.members[i].step_type :
        i \in {j \in DOMAIN sp.members : /\ sp.members[j].is_callable
                                         /\ sp.members[j].name_has_step}}

MixesHistory(sp) ==
    /\ DefinedStepTypes(sp) \cap HistoryStepTypes # {}
    /\ DefinedStepTypes(sp) \cap NonHistoryStepTypes # {}

\* The calls that have ended, as (thread, simpack) pairs.
Ended(t, n) == outcome[t].kind # "none" /\ outcome[t].simpack = n

GrokkersOf(n) == {g \in DOMAIN grokkers : grokkers[g].simpack = n}

\* C1: for every simpack, every call of SimpackGrokker(simpack) and of
\* create_from_state(state), state produced from that simpack, that returns
\* returns one and the same instance, an instance made for that simpack.
C1_Memoization ==
    \A n \in SimpackNames :
        /\ Cardinality(returned[n]) <= 1
        /\ \A t \in Threads :
             Ended(t, n) /\ outcome[t].kind = "returned" =>
                /\ returned[n] = {outcome[t].grokker}
                /\ outcome[t].grokker \in GrokkersOf(n)

\* A SimpackGrokker(simpack) call and a create_from_state call for a state of
\* the same simpack have both returned.
C1_Witness ==
    \E n \in SimpackNames, t, u \in Threads :
        /\ Ended(t, n) /\ outcome[t].kind = "returned"
        /\ outcome[t].via = "SimpackGrokker"
        /\ Ended(u, n) /\ outcome[u].kind = "returned"
        /\ outcome[u].via = "create_from_state"

\* C2: the analysis of a simpack whose State defines a history step function
\* and a non-history step function raises InvalidSimpack.
C2_MixedRaisesInvalidSimpack ==
    \A n \in SimpackNames, t \in Threads :
        /\ simpacks[n].state_class = "ok"
        /\ MixesHistory(simpacks[n])
        /\ Ended(t, n)
        => outcome[t].kind = "raised" /\ outcome[t].exc = "InvalidSimpack"

\* The analysis of a simpack with a history step function and an in-place
\* step function has ended.
C2_Witness ==
    \E n \in SimpackNames, t \in Threads :
        /\ simpacks[n].state_class = "ok"
        /\ DefinedStepTypes(simpacks[n]) \cap HistoryStepTypes # {}
        /\ DefinedStepTypes(simpacks[n]) \cap InplaceStepTypes # {}
        /\ Ended(t, n)

\* C3: the analysis of a simpack whose State has no callable member with
\* 'step' in its name raises InvalidSimpack.
C3_NoStepRaisesInvalidSimpack ==
    \A n \in SimpackNames, t \in Threads :
        /\ simpacks[n].state_class = "ok"
        /\ DefinedStepTypes(simpacks[n]) = {}
        /\ Ended(t, n)
        => outcome[t].kind = "raised" /\ outcome[t].exc = "InvalidSimpack"

\* The analysis of a simpack whose State has members, none of them a step
\* function, has ended.
C3_Witness ==
    \E n \in SimpackNames, t \in Threads :
        /\ simpacks[n].state_class = "ok"
        /\ simpacks[n].members # <<>>
        /\ DefinedStepTypes(simpacks[n]) = {}
        /\ Ended(t, n)

\* The priority order of the claim, per branch.
PriorityOrder(history_dependent) ==
    IF history_dependent
    THEN <<"HistoryStepGenerator", "HistoryStep">>
    ELSE <<"StepGenerator", "SimpleStep", "InplaceStepGenerator", "InplaceStep">>

\* C4: the default step function of every grokker is a step function of its
\* simpack whose step type is the first of the priority order (of the history
\* branch when the simpack defines a history step, of the other otherwise)
\* that the simpack defines at all.
C4_DefaultPriority ==
    \A g \in DOMAIN grokkers :
        LET sp == simpacks[grokkers[g].simpack]
            f == grokkers[g].default_step_function
            order == PriorityOrder(DefinedStepTypes(sp) \cap HistoryStepTypes # {})
        IN  /\ f \in DOMAIN sp.members
            /\ sp.members[f].is_callable /\ sp.members[f].name_has_step
            /\ grokkers[g].history_dependent =
                  (DefinedStepTypes(sp) \cap HistoryStepTypes # {})
            /\ \E k \in DOMAIN order :
                 /\ sp.members[f].step_type = order[k]
                 /\ \A j \in 1..(k - 1) : order[j] \notin DefinedStepTypes(sp)

\* A grokker exists for a simpack that defines step functions of two step
\* types.
C4_Witness ==
    \E g \in DOMAIN grokkers :
        Cardinality(DefinedStepTypes(simpacks[grokkers[g].simpack])) = 2

\* C5: the settings of every grokker hold exactly the recognized options,
\* each at the value of the simpack's settings when these define it and at
\* the framework default otherwise.
C5_SettingsOverride ==
    \A g \in DOMAIN grokkers :
        LET sp == simpacks[grokkers[g].simpack]
        IN  /\ DOMAIN grokkers[g].settings = RecognizedOptions
            /\ \A o \in RecognizedOptions :
                 grokkers[g].settings[o] =
                    IF sp.settings_kind # "none" /\ o \in sp.settings_attrs
                    THEN <<"simpack", o>> ELSE <<"default", o>>

\* A grokker exists for a simpack whose settings, a submodule, set one
\* recognized option and an unrecognized one and leave the other unset.
C5_Witness ==
    \E g \in DOMAIN grokkers :
        LET sp == simpacks[grokkers[g].simpack]
        IN  /\ sp.settings_kind = "submodule"
            /\ sp.settings_attrs = {"DETERMINISM_FUNCTION", "UNRECOGNIZED_OPTION"}

\* C6: get_inplace_step_iterator with a profile whose step function is not
\* in-place raises the unsupported-operation error, which the test takes to
\* be NotImplementedError, and returns no iterator.
C6_NonInplaceRaisesUnsupported ==
    /\ result.op = "get_inplace_step_iterator"
    /\ result.step_type \notin InplaceStepTypes
    => /\ result.raised \in {"UnsupportedOperation", "NotImplementedError"}
       /\ result.iterator = 0

\* A simpack fails validation: no State class, a State class that is no
\* subclass of the framework's, no step function, or mixed step functions.
FailsValidation(sp) ==
    \/ sp.state_class # "ok"
    \/ DefinedStepTypes(sp) = {}
    \/ MixesHistory(sp)

\* C7: for a simpack that fails validation every analysis that has ended
\* raised InvalidSimpack to its caller, and no grokker of the simpack is
\* cached, returned or kept.
C7_FailedAnalysisNeverCached ==
    \A n \in SimpackNames :
        FailsValidation(simpacks[n]) =>
            /\ cache[n] = 0
            /\ returned[n] = {}
            /\ GrokkersOf(n) = {}
            /\ \A t \in Threads :
                 Ended(t, n) =>
                    outcome[t].kind = "raised" /\ outcome[t].exc = "InvalidSimpack"

\* Two analyses of a simpack whose State class is no subclass of the
\* framework's, though it defines a step function, have ended.
C7_Witness ==
    \E n \in SimpackNames :
        /\ simpacks[n].state_class = "not_state"
        /\ DefinedStepTypes(simpacks[n]) # {}
        /\ \A t \in Threads : Ended(t, n)

\* C8: however the threads' requests interleave, at most one grokker is ever
\* constructed per simpack, and every request that returns returns it.
C8_AtMostOnceConstruction ==
    \A n \in SimpackNames :
        /\ Cardinality(GrokkersOf(n)) <= 1
        /\ returned[n] \subseteq GrokkersOf(n)
        /\ cache[n] # 0 => GrokkersOf(n) = {cache[n]}
        /\ \A t \in Threads :
             Ended(t, n) /\ outcome[t].kind = "returned" =>
                GrokkersOf(n) = {outcome[t].grokker}

\* One thread has been handed the grokker of a simpack while another thread
\* is inside the construction of the other simpack's grokker.
C8_Witness ==
    \E t, u \in Threads, n, m \in SimpackNames :
        /\ t # u /\ n # m
        /\ pc[t] = "construct" /\ call[t].simpack = n /\ lock[n] = t
        /\ Ended(u, m) /\ outcome[u].kind = "returned"
        /\ Ended(t, m) /\ outcome[t].kind = "returned"

\* C9: step(state_or_history_browser, step_profile) returns a state, and the
\* state's clock is one more than the source state's.
C9_StepReturnsClockedState ==
    result.op = "step" =>
        /\ result.raised = "none"
        /\ result.clock = result.source_clock + 1

\* C10: an iterator that get_step_iterator made for a step function of a
\* non-generator step type yields a value on its first draw and signals
\* exhaustion on every later one, and its __iter__ answers the iterator.
C10_SingleShotIterator ==
    /\ iterator.id # 0
    /\ get_step_type(iterator.step_profile.step_function) \notin GeneratorStepTypes
    => /\ \A k \in DOMAIN iterator.draws :
            iterator.draws[k] = IF k = 1 THEN "value" ELSE "StopIteration"
       /\ result.op = "__iter__" => result.iterator = iterator.id

\* An iterator for a SimpleStep function has been drawn from three times and
\* then asked for its iteration handle.
C10_Witness ==
    /\ iterator.id # 0
    /\ get_step_type(iterator.step_profile.step_function) = "SimpleStep"
    /\ Len(iterator.draws) = 3
    /\ result.op = "__iter__" /\ result.target = iterator.id

\* C11: get_inplace_step_iterator with a profile whose step function is of
\* step type InplaceStep or InplaceStepGenerator raises nothing and returns
\* an iterator.
C11_InplaceReturnsIterator ==
    /\ result.op = "get_inplace_step_iterator"
    /\ result.step_type \in InplaceStepTypes
    => /\ result.raised = "none"
       /\ result.iterator # 0

\* The step functions of a simpack's State that share the step type of
\* member f, as positions in the listing: within one step type a lower
\* position is an earlier declaration.
SameStepType(sp, f) ==
    {i \in DOMAIN sp.members : /\ sp.members[i].is_callable
                               /\ sp.members[i].name_has_step
                               /\ sp.members[i].step_type = sp.members[f].step_type}

\* C12: every grokker keeps the step functions of each step type in their
\* order of declaration, and its default step function is the first declared
\* of the step functions of its step type.
C12_DeclarationOrder ==
    \A g \in DOMAIN grokkers :
        LET sp == simpacks[grokkers[g].simpack]
            sf == grokkers[g].step_functions
            f == grokkers[g].default_step_function
        IN  /\ \A t \in step_types_list :
                 \A i, j \in DOMAIN sf[t] : i < j => sf[t][i] < sf[t][j]
            /\ \A i \in SameStepType(sp, f) : f <= i

\* C13: inside the scope of a TempValueSetter, until the suite sets the
\* variable itself, the variable holds the temporary value (as the mechanism
\* behind the variable keeps it); and however the scope ends, the suite
\* raising or not, the variable changed inside or not, the variable then
\* holds the value it had right before entry.
C13_RestoredOnEveryExit ==
    /\ with_statement.pc = "suite" /\ ~with_statement.changed
       => Processed(variable) = Processed(temp_value_setter.value)
    /\ with_statement.pc = "ended" => variable = with_statement.before

====
